---------------------------- MODULE Spec2Model ----------------------------
(***************************************************************************)
(* A model of src/src/passwordless.ts: the Client of the passwordless      *)
(* WebAuthn ceremonies (register, signinWithId, signinWithAlias) and its   *)
(* base64url transcoder (coerceToArrayBuffer, coerceToBase64Url).          *)
(*                                                                         *)
(* JavaScript values are tagged records, the tag being what typeof /       *)
(* instanceof / Array.isArray tell apart:                                  *)
(*   [t |-> "string", c |-> <<"A","Q">>]   a string, as its characters     *)
(*   [t |-> "string", s |-> "u1"]          a string never looked into      *)
(*   [t |-> "number", n |-> 5]             [t |-> "undefined"]             *)
(*   [t |-> "null"]                        [t |-> "object", ...]           *)
(*   [t |-> "Uint8Array", b |-> <<1,2>>]   [t |-> "ArrayBuffer", b |-> ..] *)
(*   [t |-> "Array", a |-> <<1,2>>]                                        *)
(*   [t |-> "error", name |-> .., message |-> ..]  a thrown value          *)
(***************************************************************************)
EXTENDS Integers, Sequences, FiniteSets, TLC

VARIABLES
    PublicKeyCredential, \* window.PublicKeyCredential, as the platform defines it
    config,     \* Client.config after the constructor
    proc,       \* per invocation of register / signinWithId / signinWithAlias: its frame
    requests,   \* per invocation: the fetch calls it issued, in order
    responses,  \* per invocation: how each of its fetch calls settled, in order
    platform,   \* per invocation: its navigator.credentials.create / get calls
    value,      \* transcoder: the value the next coerce call is applied to
    trail       \* transcoder: the values the coerce calls were applied to so far

codecVars == <<value, trail>>
clientVars == <<PublicKeyCredential, config, proc, requests, responses, platform>>
vars == <<PublicKeyCredential, config, proc, requests, responses, platform, value, trail>>

-----------------------------------------------------------------------------
(* Bounds *)

\* longest byte sequence handed to coerceToBase64Url
MaxLen == 3
\* longest text handed to coerceToArrayBuffer from outside
MaxText == 4
\* coerce calls chained on one value (2: one round trip)
MaxSteps == 2
\* invocations of the public entry points that may be in flight together
MaxCeremonies == 2

Procs == 1..MaxCeremonies

\* calls of isPlatformSupported that may be in flight together
MaxProbes == 3

Callers == 1..MaxProbes

\* byte values tried: low, high (> 127), and those whose base64 holds '+' and '/'
ByteVals == {0, 1, 127, 128, 251, 255}
\* elements of a plain Array: also values Uint8Array.from wraps modulo 256
ArrayVals == ByteVals \cup {-1, 257}
\* characters of the texts tried: both alphabets' specials, padding, two letters
TextChars == {"A", "Q", "-", "_", "+", "/", "="}

SeqsUpTo(S, n) == UNION {[1..k -> S] : k \in 0..n}

-----------------------------------------------------------------------------
(* JavaScript values *)

Str(chars) == [t |-> "string", c |-> chars]
Txt(s) == [t |-> "string", s |-> s]
Num(n) == [t |-> "number", n |-> n]
Undefined == [t |-> "undefined"]
Null == [t |-> "null"]
U8(bytes) == [t |-> "Uint8Array", b |-> bytes]
Buf(bytes) == [t |-> "ArrayBuffer", b |-> bytes]
Arr(elems) == [t |-> "Array", a |-> elems]
Bool(b) == [t |-> "boolean", v |-> b]
Thrown(name, message) == [t |-> "error", name |-> name, message |-> message]

IsError(v) == "t" \in DOMAIN v /\ v.t = "error"

Only(S) == CHOOSE x \in S : TRUE

\* F of v, with v evaluated once: const x = v; F(x)
Let(v, F(_)) == Only({F(x) : x \in {v}})

\* v, then F of it: a statement after another one. A thrown v ends the
\* sequence, as an exception does; otherwise F goes on with v's value.
Then(v, F(_)) == Only({IF IsError(x) THEN x ELSE F(x) : x \in {v}})

-----------------------------------------------------------------------------
(* The platform's btoa and atob (WHATWG forgiving-base64) *)

Alphabet ==
    << "A","B","C","D","E","F","G","H","I","J","K","L","M",
       "N","O","P","Q","R","S","T","U","V","W","X","Y","Z",
       "a","b","c","d","e","f","g","h","i","j","k","l","m",
       "n","o","p","q","r","s","t","u","v","w","x","y","z",
       "0","1","2","3","4","5","6","7","8","9","+","/" >>

AlphabetChars == {Alphabet[i] : i \in 1..64}

Sextet(ch) == (CHOOSE i \in 1..64 : Alphabet[i] = ch) - 1

Pow2(n) == IF n = 0 THEN 1 ELSE IF n = 2 THEN 4 ELSE IF n = 4 THEN 16
           ELSE IF n = 6 THEN 64 ELSE IF n = 8 THEN 256 ELSE 1024

\* btoa(string): string is given as its char codes. Every 6 bits of the byte
\* stream become one character, the last group is zero-filled, and '=' pads
\* the text to a multiple of 4. A code above 255 throws.
Btoa(codes) ==
    IF \E i \in 1..Len(codes) : codes[i] > 255
    THEN Thrown("InvalidCharacterError", "The string to be encoded contains characters outside of the Latin1 range.")
    ELSE LET n == Len(codes)
             nchars == (8 * n + 5) \div 6
             total == 4 * ((n + 2) \div 3)
             SextetAt(j) ==
                 LET o == 6 * (j - 1)
                     k == (o \div 8) + 1
                     r == o % 8
                     v == codes[k] * 256 + (IF k + 1 <= n THEN codes[k + 1] ELSE 0)
                 IN  (v \div Pow2(10 - r)) % 64
         IN  Str([j \in 1..total |->
                    IF j <= nchars THEN Alphabet[SextetAt(j) + 1] ELSE "="])

\* atob(text): with a length that is a multiple of 4, one or two trailing '='
\* are dropped; a length of 1 modulo 4 or a character outside the standard
\* alphabet throws; every 8 bits of the sextet stream become one char code and
\* the 2 or 4 bits left over are discarded. The result is the char codes.
StripPadding(chars) ==
    LET n == Len(chars)
    IN  IF n > 0 /\ n % 4 = 0
        THEN IF chars[n] = "=" /\ chars[n - 1] = "=" THEN SubSeq(chars, 1, n - 2)
             ELSE IF chars[n] = "=" THEN SubSeq(chars, 1, n - 1)
             ELSE chars
        ELSE chars

Atob(chars) ==
    Let(StripPadding(chars), LAMBDA data :
        LET n == Len(data)
        IN  IF n % 4 = 1 \/ \E i \in 1..n : data[i] \notin AlphabetChars
            THEN Thrown("InvalidCharacterError", "The string to be decoded is not correctly encoded.")
            ELSE LET nbytes == (6 * n) \div 8
                     CodeAt(k) ==
                         LET o == 8 * (k - 1)
                             i == (o \div 6) + 1
                             r == o % 6
                             v == Sextet(data[i]) * 64 + Sextet(data[i + 1])
                         IN  (v \div Pow2(4 - r)) % 256
                 IN  [t |-> "codes", codes |-> [k \in 1..nbytes |-> CodeAt(k)]])

-----------------------------------------------------------------------------
(* The transcoder *)

ReplaceAll(chars, from, to) ==
    [i \in 1..Len(chars) |-> IF chars[i] = from THEN to ELSE chars[i]]

\* .replace(/=*$/g, ''): the trailing run of '=' is removed
RECURSIVE StripTrailingEq(_)
StripTrailingEq(chars) ==
    IF Len(chars) > 0 /\ chars[Len(chars)] = "="
    THEN StripTrailingEq(SubSeq(chars, 1, Len(chars) - 1))
    ELSE chars

base64ToBase64UrlKeepPadding(chars) ==
    ReplaceAll(ReplaceAll(chars, "+", "-"), "/", "_")

base64ToBase64Url(chars) ==
    StripTrailingEq(ReplaceAll(ReplaceAll(chars, "+", "-"), "/", "_"))

base64UrlToBase64NoUnderscore(chars) ==
    ReplaceAll(chars, "-", "+")

base64UrlToBase64Swapped(chars) ==
    [i \in 1..Len(chars) |->
        IF chars[i] = "-" THEN "/" ELSE IF chars[i] = "_" THEN "+" ELSE chars[i]]

base64UrlToBase64(chars) ==
    ReplaceAll(ReplaceAll(chars, "-", "+"), "_", "/")

coerceToArrayBufferLenient(value0) ==
    Then(value0, LAMBDA v :
        IF v.t = "string"
        THEN Let(base64UrlToBase64(v.c), LAMBDA base64 :
             Then(Atob(base64), LAMBDA string :
                 U8([i \in 1..Len(string.codes) |-> string.codes[i] % 256])))
        ELSE U8(<<>>))

\* bytes[i] = string.charCodeAt(i): a store into a Uint8Array keeps 8 bits
coerceToArrayBuffer(value0) ==
    Then(value0, LAMBDA v :
        IF v.t = "string"
        THEN Let(base64UrlToBase64(v.c), LAMBDA base64 :
             Then(Atob(base64), LAMBDA string :
                 U8([i \in 1..Len(string.codes) |-> string.codes[i] % 256])))
        ELSE Thrown("TypeError", "Could not coerce to ArrayBuffer"))

\* Uint8Array.from(array) stores every element modulo 256;
\* string += String.fromCharCode(uint8Array[i]) appends the byte as a char code
coerceToBase64Url(value0) ==
    Then(value0, LAMBDA v :
        IF v.t \notin {"Array", "ArrayBuffer", "Uint8Array"}
        THEN Thrown("Error", "Could not coerce to string")
        ELSE Let(IF v.t = "Array" THEN [i \in 1..Len(v.a) |-> v.a[i] % 256] ELSE v.b,
                 LAMBDA uint8Array :
             Let([i \in 1..Len(uint8Array) |-> uint8Array[i]], LAMBDA string :
             Then(Btoa(string), LAMBDA base64String :
                 Str(base64ToBase64Url(base64String.c))))))

-----------------------------------------------------------------------------
(* Objects, JSON and errors *)

GetLenient(obj, key) ==
    IF obj.t \in {"undefined", "null"} THEN Undefined
    ELSE IF key \in DOMAIN obj THEN obj[key] ELSE Undefined

\* obj.key: a missing key reads as undefined; reading a key of undefined or
\* null throws a TypeError
Get(obj, key) ==
    IF obj.t \in {"undefined", "null"}
    THEN Thrown("TypeError", "Cannot read properties of " \o obj.t \o " (reading '" \o key \o "')")
    ELSE IF key \in DOMAIN obj THEN obj[key] ELSE Undefined

\* JSON.stringify(object): a key whose value is undefined is left out of the
\* text. The body is kept as the object the text denotes.
JSONStringify(obj) ==
    [k \in {x \in DOMAIN obj : obj[x] # Undefined} |-> obj[k]]

\* the first thrown value among the results, or undefined
FirstError(results) ==
    LET thrown == {i \in 1..Len(results) : IsError(results[i])}
    IN  IF thrown = {} THEN Undefined
        ELSE results[CHOOSE i \in thrown : \A j \in thrown : i <= j]

NotJson == [t |-> "notjson"]

Response(status, json) ==
    [status |-> status, ok |-> (status >= 200 /\ status <= 299), json |-> json]

NetworkFailure == [status |-> 0, ok |-> FALSE, json |-> NotJson]

-----------------------------------------------------------------------------
(* The capability guard and the configuration *)

isBrowserSupported ==
    PublicKeyCredential # Undefined /\ PublicKeyCredential.t = "function"

UnsupportedMessage ==
    "WebAuthn and PublicKeyCredentials are not supported on this browser/device"

assertBrowserSupportedNoThrow == Undefined

assertBrowserSupported ==
    IF ~isBrowserSupported THEN Thrown("Error", UnsupportedMessage) ELSE Undefined

\* the field initialisers of Client.config, with window.location of the page
DefaultConfig ==
    [apiUrl |-> "https://v3.passwordless.dev", apiKey |-> "",
     origin |-> "https://app.example", rpid |-> "app.example"]

\* Object.assign(this.config, config)
Constructor(given) ==
    [k \in DOMAIN DefaultConfig |->
        IF k \in DOMAIN given THEN given[k] ELSE DefaultConfig[k]]

\* the configuration the constructor is given: the key, and one default overridden
GivenConfigs ==
    { [apiKey |-> "key-1", origin |-> "https://other.example"] }

createHeaders ==
    [ApiKey |-> config.apiKey, ContentType |-> "application/json"]

\* fetch(`${this.config.apiUrl}${path}`, {method: 'POST', headers, body})
Request(path, body) ==
    [url |-> config.apiUrl \o path, path |-> path, method |-> "POST",
     headers |-> createHeaders, body |-> body]

-----------------------------------------------------------------------------
(* What the backend and the platform may answer *)

\* the session id the backend issues for the begin request of invocation p
SessionId(p) == Txt("session-" \o ToString(p))

Challenge == Str(<<"A", "Q", "I", "D">>)
UserIdText == Str(<<"-", "_", "8">>)
CredIdText == Str(<<"A", "Q">>)

Object(fields) == [k \in DOMAIN fields \cup {"t"} |->
                     IF k = "t" THEN "object" ELSE fields[k]]

Items(elems) == [t |-> "Array", items |-> elems]

ProblemDetails == Object([title |-> Txt("Bad Request"), status |-> Num(400)])

\* /register/begin: options with and without an exclusion list; a challenge, a
\* user id, a listed credential id that is no string; an error document; a body
\* that is no JSON
RegisterBeginResponses(p) ==
    << Response(200, Object([sessionId |-> SessionId(p),
            data |-> Object([challenge |-> Challenge,
                             user |-> Object([id |-> UserIdText]),
                             excludeCredentials |->
                                 Items(<<Object([id |-> CredIdText])>>)])])),
       Response(200, Object([sessionId |-> SessionId(p),
            data |-> Object([challenge |-> Challenge,
                             user |-> Object([id |-> UserIdText])])])),
       Response(200, Object([sessionId |-> SessionId(p),
            data |-> Object([challenge |-> Num(5),
                             user |-> Object([id |-> UserIdText])])])),
       Response(200, Object([sessionId |-> SessionId(p),
            data |-> Object([challenge |-> Challenge,
                             user |-> Object([id |-> Null])])])),
       Response(200, Object([sessionId |-> SessionId(p),
            data |-> Object([challenge |-> Challenge,
                             user |-> Object([id |-> UserIdText]),
                             excludeCredentials |->
                                 Items(<<Object([id |-> Num(5)])>>)])])),
       Response(400, ProblemDetails),
       Response(500, NotJson) >>

\* /signin/begin: options with the allow list of the user's credentials; a
\* challenge, a listed credential id that is no string; an error document; a
\* body that is no JSON
SigninBeginResponses(p) ==
    << Response(200, Object([sessionId |-> SessionId(p),
            data |-> Object([challenge |-> Challenge,
                             allowCredentials |->
                                 Items(<<Object([id |-> CredIdText])>>)])])),
       Response(200, Object([sessionId |-> SessionId(p),
            data |-> Object([challenge |-> Num(5)])])),
       Response(200, Object([sessionId |-> SessionId(p),
            data |-> Object([challenge |-> Challenge,
                             allowCredentials |->
                                 Items(<<Object([type |-> Txt("public-key")])>>)])])),
       Response(400, ProblemDetails),
       Response(500, NotJson) >>

\* /register/complete: a success document, an error document, no JSON
RegisterCompleteResponses(p) ==
    << Response(200, Object([token |-> Txt("registered-" \o ToString(p))])),
       Response(400, ProblemDetails),
       Response(500, NotJson) >>

\* /signin/complete: the success value under data, an error document, no JSON
SigninCompleteResponses(p) ==
    << Response(200, Object([data |-> Txt("verified-" \o ToString(p))])),
       Response(400, ProblemDetails),
       Response(500, NotJson) >>

ResponsesAt(site, p) ==
    CASE site = "registerBegin" -> RegisterBeginResponses(p)
      [] site = "registerComplete" -> RegisterCompleteResponses(p)
      [] site = "signinBegin" -> SigninBeginResponses(p)
      [] site = "signinComplete" -> SigninCompleteResponses(p)

\* the PublicKeyCredential the platform hands to invocation p
AttestationCredential(p) ==
    Object([id |-> Txt("cred-" \o ToString(p)),
            rawId |-> Buf(<<p, 251, 255>>),
            type |-> Txt("public-key"),
            extensions |-> Object(<<>>),
            response |-> Object([attestationObject |-> Buf(<<p, 255>>),
                                 clientDataJSON |-> Buf(<<123, 125>>)])])

AssertionCredential(p) ==
    Object([id |-> Txt("cred-" \o ToString(p)),
            rawId |-> Buf(<<p, 251, 255>>),
            type |-> Txt("public-key"),
            extensions |-> Object(<<>>),
            response |-> Object([authenticatorData |-> Buf(<<p, 1>>),
                                 clientDataJSON |-> Buf(<<123, 125>>),
                                 signature |-> Buf(<<255, p, 128, 0>>)])])

\* navigator.credentials.create / get resolve with a credential or with null
CreateResults(p) == << AttestationCredential(p), Null >>
GetResults(p) == << AssertionCredential(p), Null >>

NotAllowedError ==
    Thrown("NotAllowedError", "The operation either timed out or was not allowed.")

FetchError == Thrown("TypeError", "Failed to fetch")

JsonError == Thrown("SyntaxError", "Unexpected token < in JSON at position 0")

-----------------------------------------------------------------------------
(* The frame of one invocation, and the ceremony boundary *)

IdleFrame ==
    [entry |-> "none",          \* the public entry point called
     args |-> <<>>,             \* its arguments
     pc |-> "idle",             \* idle, fetch, json, create, get, settled
     site |-> "none",           \* the private method whose fetch is awaited
     response |-> Undefined,    \* the Response whose json() is awaited
     begun |-> Undefined,       \* registration / signin: the begin result
     credential |-> Undefined,  \* what the platform invocation resolved with
     result |-> Undefined,      \* what registerComplete / signinComplete resolved with
     logged |-> Undefined,      \* console.error(error) of the catch block
     promise |-> [state |-> "none"]]  \* the promise the caller holds

Fulfilled(v) == [state |-> "fulfilled", value |-> v]
Rejected(e) == [state |-> "rejected", value |-> e]

RegisterPrefix == "Passwordless register failed: "
SigninPrefix == "Passwordless signin failed: "

RegisterCatchRethrow(error) == error

\* throw new Error(`Passwordless register failed: ${error.message}`)
RegisterCatch(error) == Thrown("Error", RegisterPrefix \o error.message)

\* throw new Error(`Passwordless signin failed: ${error.message}`)
SigninCatch(error) == Thrown("Error", SigninPrefix \o error.message)

CaughtAndRestarted(frame, error) ==
    [frame EXCEPT !.pc = "idle", !.logged = error]

\* the catch block of the entry point the frame belongs to
Caught(frame, error) ==
    [frame EXCEPT !.pc = "settled",
                  !.logged = error,
                  !.promise = Rejected(IF frame.entry = "register"
                                       THEN RegisterCatch(error)
                                       ELSE SigninCatch(error))]

-----------------------------------------------------------------------------
(* Request bodies *)

registerBeginBodyPageOrigin(token) ==
    JSONStringify([token |-> Txt(token),
                   RPID |-> Txt(DefaultConfig.rpid),
                   Origin |-> Txt(DefaultConfig.origin)])

registerBeginBody(token) ==
    JSONStringify([token |-> Txt(token),
                   RPID |-> Txt(config.rpid),
                   Origin |-> Txt(config.origin)])

signinBeginBodyNull(signinMethod) ==
    JSONStringify(
        [userId |-> IF "userId" \in DOMAIN signinMethod THEN signinMethod.userId ELSE Null,
         alias |-> IF "alias" \in DOMAIN signinMethod THEN signinMethod.alias ELSE Null,
         RPID |-> Txt(config.rpid),
         Origin |-> Txt(config.origin)])

signinBeginBody(signinMethod) ==
    JSONStringify(
        [userId |-> IF "userId" \in DOMAIN signinMethod THEN signinMethod.userId ELSE Undefined,
         alias |-> IF "alias" \in DOMAIN signinMethod THEN signinMethod.alias ELSE Undefined,
         RPID |-> Txt(config.rpid),
         Origin |-> Txt(config.origin)])

\* new Uint8Array(buffer)
NewUint8Array(buffer) ==
    IF IsError(buffer) THEN buffer
    ELSE IF buffer.t \in {"ArrayBuffer", "Uint8Array"} THEN U8(buffer.b)
    ELSE U8(<<>>)

\* coerceToBase64Url(new Uint8Array(object[key]))
EncodedField(object, key) ==
    Then(Get(object, key), LAMBDA buffer : coerceToBase64Url(NewUint8Array(buffer)))

\* the body of /register/complete, or what building it throws
registerCompleteBody(credential, sessionId, credentialNickname) ==
    Then(Get(credential, "response"), LAMBDA attestationResponse :
    Then(Get(credential, "id"), LAMBDA id :
    Then(EncodedField(credential, "rawId"), LAMBDA rawId :
    Then(Get(credential, "type"), LAMBDA type :
    Then(Get(credential, "extensions"), LAMBDA extensions :
    Then(EncodedField(attestationResponse, "attestationObject"), LAMBDA attestationObject :
    Then(EncodedField(attestationResponse, "clientDataJSON"), LAMBDA clientDataJSON :
        JSONStringify(
            [sessionId |-> sessionId,
             response |-> JSONStringify(
                 [id |-> id,
                  rawId |-> rawId,
                  type |-> type,
                  extensions |-> extensions,
                  response |-> [AttestationObject |-> attestationObject,
                                clientDataJson |-> clientDataJSON]]),
             nickname |-> Txt(credentialNickname),
             RPID |-> Txt(config.rpid),
             Origin |-> Txt(config.origin)]))))))))

\* the body of /signin/complete, or what building it throws
signinCompleteBody(credential, sessionId) ==
    Then(Get(credential, "response"), LAMBDA assertionResponse :
    Then(Get(credential, "id"), LAMBDA id :
    Then(EncodedField(credential, "rawId"), LAMBDA rawId :
    Then(Get(credential, "type"), LAMBDA type :
    Then(Get(credential, "extensions"), LAMBDA extensions :
    Then(EncodedField(assertionResponse, "authenticatorData"), LAMBDA authenticatorData :
    Then(EncodedField(assertionResponse, "clientDataJSON"), LAMBDA clientDataJSON :
    Then(EncodedField(assertionResponse, "signature"), LAMBDA signature :
        JSONStringify(
            [sessionId |-> sessionId,
             response |-> JSONStringify(
                 [id |-> id,
                  rawId |-> rawId,
                  type |-> type,
                  extensions |-> extensions,
                  response |-> [authenticatorData |-> authenticatorData,
                                clientDataJson |-> clientDataJSON,
                                signature |-> signature]]),
             RPID |-> Txt(config.rpid),
             Origin |-> Txt(config.origin)])))))))))

-----------------------------------------------------------------------------
(* Transcode-in: the begin response's text fields become binary, in place *)

CoerceIdsKeepText(list) == list

\* list?.forEach((cred) => { cred.id = this.coerceToArrayBuffer(cred.id) })
CoerceIds(list) ==
    IF list.t \in {"undefined", "null"} THEN list
    ELSE Let([i \in 1..Len(list.items) |->
                 coerceToArrayBuffer(Get(list.items[i], "id"))], LAMBDA ids :
         IF FirstError(ids) # Undefined THEN FirstError(ids)
         ELSE Items([i \in 1..Len(list.items) |->
                        [k \in DOMAIN list.items[i] \cup {"id"} |->
                            IF k = "id" THEN ids[i] ELSE list.items[i][k]]]))

\* obj with obj[key] = v
Put(obj, key, v) ==
    [k \in DOMAIN obj \cup {key} |-> IF k = key THEN v ELSE obj[k]]

\* register, lines 33 to 37, on registration.data
TranscodeRegistration(data) ==
    Then(Get(data, "challenge"), LAMBDA challengeText :
    Then(coerceToArrayBuffer(challengeText), LAMBDA challenge :
    Then(Get(data, "user"), LAMBDA user :
    Then(Get(user, "id"), LAMBDA userIdText :
    Then(coerceToArrayBuffer(userIdText), LAMBDA userId :
    Then(Get(data, "excludeCredentials"), LAMBDA list :
    Then(CoerceIds(list), LAMBDA excluded :
        Let(Put(Put(data, "challenge", challenge), "user", Put(user, "id", userId)),
            LAMBDA d1 :
                IF excluded.t \in {"undefined", "null"} THEN d1
                ELSE Put(d1, "excludeCredentials", excluded)))))))))

TranscodeSigninSkipped(data) == data

\* signin, lines 133 to 136, on signin.data
TranscodeSignin(data) ==
    Then(Get(data, "challenge"), LAMBDA challengeText :
    Then(coerceToArrayBuffer(challengeText), LAMBDA challenge :
    Then(Get(data, "allowCredentials"), LAMBDA list :
    Then(CoerceIds(list), LAMBDA allowed :
        Let(Put(data, "challenge", challenge), LAMBDA d1 :
            IF allowed.t \in {"undefined", "null"} THEN d1
            ELSE Put(d1, "allowCredentials", allowed))))))

-----------------------------------------------------------------------------
(* The ceremonies: one action per step between two suspension points *)

\* arguments the entry points are called with
Tokens == {"token-1"}
Nicknames == {"laptop"}
UserIds == {"u1"}
Aliases == {"a1"}

Init ==
    /\ PublicKeyCredential \in {Undefined, [t |-> "object"], [t |-> "function"]}
    /\ config \in {Constructor(given) : given \in GivenConfigs}
    /\ proc = [p \in Procs |-> IdleFrame]
    /\ requests = [p \in Procs |-> <<>>]
    /\ responses = [p \in Procs |-> <<>>]
    /\ platform = [p \in Procs |-> <<>>]
    /\ value = Undefined
    /\ trail = <<>>

\* the frame goes on to await fetch(request) in the private method site
Fetching(frame, site) == [frame EXCEPT !.pc = "fetch", !.site = site]

SessionOfFirst(begun) == SessionId(1)

\* registration.sessionId / signin.sessionId: the session id of the begin result
SessionOf(begun) == Get(begun, "sessionId")

\* register(token, credentialNickname) up to its first await
Register(p, token, credentialNickname) ==
    /\ proc[p].pc = "idle"
    /\ LET frame == [proc[p] EXCEPT
                        !.entry = "register",
                        !.args = [token |-> token,
                                  credentialNickname |-> credentialNickname],
                        !.promise = [state |-> "pending"]]
           guard == assertBrowserSupported
       IN  IF IsError(guard)
           THEN /\ proc' = [proc EXCEPT ![p] =
                               [frame EXCEPT !.pc = "settled",
                                             !.promise = Rejected(guard)]]
                /\ UNCHANGED requests
           ELSE /\ proc' = [proc EXCEPT ![p] = Fetching(frame, "registerBegin")]
                /\ requests' = [requests EXCEPT ![p] =
                       Append(@, Request("/register/begin", registerBeginBody(token)))]
    /\ UNCHANGED <<PublicKeyCredential, config, responses, platform, value, trail>>

\* signin(signinMethod) up to its first await
signin(p, entry, signinMethod) ==
    /\ proc[p].pc = "idle"
    /\ LET frame == [proc[p] EXCEPT !.entry = entry,
                                    !.args = signinMethod,
                                    !.promise = [state |-> "pending"]]
           guard == assertBrowserSupported
       IN  IF IsError(guard)
           THEN /\ proc' = [proc EXCEPT ![p] =
                               [frame EXCEPT !.pc = "settled",
                                             !.promise = Rejected(guard)]]
                /\ UNCHANGED requests
           ELSE /\ proc' = [proc EXCEPT ![p] = Fetching(frame, "signinBegin")]
                /\ requests' = [requests EXCEPT ![p] =
                       Append(@, Request("/signin/begin", signinBeginBody(signinMethod)))]
    /\ UNCHANGED <<PublicKeyCredential, config, responses, platform, value, trail>>

\* signinWithId(userId): return this.signin({userId})
SigninWithId(p, userId) == signin(p, "signinWithId", [userId |-> Txt(userId)])

\* signinWithAlias(alias): return this.signin({alias})
SigninWithAlias(p, alias) == signin(p, "signinWithAlias", [alias |-> Txt(alias)])

\* an awaited fetch resolves with the backend's Response, whatever its status
FetchResolves(p) ==
    /\ proc[p].pc = "fetch"
    /\ \E i \in DOMAIN ResponsesAt(proc[p].site, p) :
       \E response \in {ResponsesAt(proc[p].site, p)[i]} :
           /\ proc' = [proc EXCEPT ![p] = [@ EXCEPT !.pc = "json",
                                                    !.response = response]]
           /\ responses' = [responses EXCEPT ![p] = Append(@, response)]
    /\ UNCHANGED <<PublicKeyCredential, config, requests, platform, value, trail>>

FetchRejectsAll(p) ==
    /\ proc[p].pc = "fetch"
    /\ proc' = [q \in Procs |->
                   IF proc[q].pc = "fetch" THEN Caught(proc[q], FetchError) ELSE proc[q]]
    /\ responses' = [q \in Procs |->
                        IF proc[q].pc = "fetch" THEN Append(responses[q], NetworkFailure)
                        ELSE responses[q]]
    /\ UNCHANGED <<PublicKeyCredential, config, requests, platform, value, trail>>

\* an awaited fetch rejects: the network failed
FetchRejects(p) ==
    /\ proc[p].pc = "fetch"
    /\ proc' = [proc EXCEPT ![p] = Caught(@, FetchError)]
    /\ responses' = [responses EXCEPT ![p] = Append(@, NetworkFailure)]
    /\ UNCHANGED <<PublicKeyCredential, config, requests, platform, value, trail>>

JsonRejectsUnnoticed(p) ==
    /\ proc[p].pc = "json"
    /\ proc[p].response.json = NotJson
    /\ UNCHANGED vars

\* response.json() rejects: the body is no JSON
JsonRejects(p) ==
    /\ proc[p].pc = "json"
    /\ proc[p].response.json = NotJson
    /\ proc' = [proc EXCEPT ![p] = Caught(@, JsonError)]
    /\ UNCHANGED <<PublicKeyCredential, config, requests, responses, platform, value, trail>>

\* registerBegin returns: register goes from line 31 to the await of line 39
RegisterBeginReturns(p) ==
    /\ proc[p].pc = "json"
    /\ proc[p].site = "registerBegin"
    /\ proc[p].response.json # NotJson
    /\ \E registration \in {proc[p].response.json} :
       \E data \in {Then(Get(registration, "data"), TranscodeRegistration)} :
           IF IsError(data)
           THEN /\ proc' = [proc EXCEPT ![p] = Caught(@, data)]
                /\ UNCHANGED platform
           ELSE /\ proc' = [proc EXCEPT ![p] =
                       [@ EXCEPT !.pc = "create",
                                 !.begun = Put(registration, "data", data)]]
                /\ platform' = [platform EXCEPT ![p] =
                       Append(@, [op |-> "create", publicKey |-> data])]
    /\ UNCHANGED <<PublicKeyCredential, config, requests, responses, value, trail>>

CreatedCheckNone(credential) == Undefined

\* if (!credential) throw new Error('Failed to create credential ...')
CreatedCheck(credential) ==
    IF credential.t \in {"null", "undefined"}
    THEN Thrown("Error", "Failed to create credential (navigator.credentials.create)")
    ELSE Undefined

\* navigator.credentials.create resolves: register goes from line 39 to the
\* fetch of registerComplete
CredentialsCreateResolves(p) ==
    /\ proc[p].pc = "create"
    /\ \E j \in DOMAIN CreateResults(p) :
       \E credential \in {CreateResults(p)[j]} :
       \E frame \in {[proc[p] EXCEPT !.credential = credential]} :
       \E body \in {Then(CreatedCheck(credential), LAMBDA checked :
                       registerCompleteBody(credential,
                                            SessionOf(frame.begun),
                                            frame.args.credentialNickname))} :
           IF IsError(body)
           THEN /\ proc' = [proc EXCEPT ![p] = Caught(frame, body)]
                /\ UNCHANGED requests
           ELSE /\ proc' = [proc EXCEPT ![p] = Fetching(frame, "registerComplete")]
                /\ requests' = [requests EXCEPT ![p] =
                       Append(@, Request("/register/complete", body))]
    /\ UNCHANGED <<PublicKeyCredential, config, responses, platform, value, trail>>

\* navigator.credentials.create or get rejects: refused, dismissed, timed out
CredentialsRejects(p) ==
    /\ proc[p].pc \in {"create", "get"}
    /\ proc' = [proc EXCEPT ![p] = Caught(@, NotAllowedError)]
    /\ UNCHANGED <<PublicKeyCredential, config, requests, responses, platform, value, trail>>

RegisterReturnsResponse(response) == response

\* await this.registerComplete(...): the value is dropped, register returns nothing
RegisterReturnValue(response) == Undefined

\* registerComplete returns: register goes from line 47 to its end
RegisterCompleteReturns(p) ==
    /\ proc[p].pc = "json"
    /\ proc[p].site = "registerComplete"
    /\ proc[p].response.json # NotJson
    /\ LET response == proc[p].response.json
       IN  proc' = [proc EXCEPT ![p] =
               [@ EXCEPT !.pc = "settled",
                         !.result = response,
                         !.promise = Fulfilled(RegisterReturnValue(response))]]
    /\ UNCHANGED <<PublicKeyCredential, config, requests, responses, platform, value, trail>>

\* signinBegin returns: signin goes from line 131 to the await of line 138
SigninBeginReturns(p) ==
    /\ proc[p].pc = "json"
    /\ proc[p].site = "signinBegin"
    /\ proc[p].response.json # NotJson
    /\ \E begun \in {proc[p].response.json} :
       \E data \in {Then(Get(begun, "data"), TranscodeSignin)} :
           IF IsError(data)
           THEN /\ proc' = [proc EXCEPT ![p] = Caught(@, data)]
                /\ UNCHANGED platform
           ELSE /\ proc' = [proc EXCEPT ![p] =
                       [@ EXCEPT !.pc = "get",
                                 !.begun = Put(begun, "data", data)]]
                /\ platform' = [platform EXCEPT ![p] =
                       Append(@, [op |-> "get", publicKey |-> data])]
    /\ UNCHANGED <<PublicKeyCredential, config, requests, responses, value, trail>>

\* navigator.credentials.get resolves: signin goes from line 138 to the fetch
\* of signinComplete
CredentialsGetResolves(p) ==
    /\ proc[p].pc = "get"
    /\ \E j \in DOMAIN GetResults(p) :
       \E credential \in {GetResults(p)[j]} :
       \E frame \in {[proc[p] EXCEPT !.credential = credential]} :
       \E body \in {signinCompleteBody(credential, SessionOf(frame.begun))} :
           IF IsError(body)
           THEN /\ proc' = [proc EXCEPT ![p] = Caught(frame, body)]
                /\ UNCHANGED requests
           ELSE /\ proc' = [proc EXCEPT ![p] = Fetching(frame, "signinComplete")]
                /\ requests' = [requests EXCEPT ![p] =
                       Append(@, Request("/signin/complete", body))]
    /\ UNCHANGED <<PublicKeyCredential, config, responses, platform, value, trail>>

SigninReturnsResponse(response) == response

\* return response.data
SigninReturnValue(response) == Get(response, "data")

\* signinComplete returns: signin goes from line 142 to its end
SigninCompleteReturns(p) ==
    /\ proc[p].pc = "json"
    /\ proc[p].site = "signinComplete"
    /\ proc[p].response.json # NotJson
    /\ \E response \in {proc[p].response.json} :
       \E data \in {SigninReturnValue(response)} :
           proc' = [proc EXCEPT ![p] =
               IF IsError(data) THEN Caught([@ EXCEPT !.result = response], data)
               ELSE [@ EXCEPT !.pc = "settled",
                              !.result = response,
                              !.promise = Fulfilled(data)]]
    /\ UNCHANGED <<PublicKeyCredential, config, requests, responses, platform, value, trail>>

Next ==
    \E p \in Procs :
        \/ \E token \in Tokens, nickname \in Nicknames : Register(p, token, nickname)
        \/ \E userId \in UserIds : SigninWithId(p, userId)
        \/ \E alias \in Aliases : SigninWithAlias(p, alias)
        \/ FetchResolves(p)
        \/ FetchRejects(p)
        \/ JsonRejects(p)
        \/ RegisterBeginReturns(p)
        \/ CredentialsCreateResolves(p)
        \/ CredentialsRejects(p)
        \/ RegisterCompleteReturns(p)
        \/ SigninBeginReturns(p)
        \/ CredentialsGetResolves(p)
        \/ SigninCompleteReturns(p)

Spec == Init /\ [][Next]_vars

\* an awaited fetch of invocation p settles
NetworkSettles(p) == FetchResolves(p) \/ FetchRejects(p)

\* an awaited navigator.credentials.create / get of invocation p settles
PlatformSettles(p) ==
    CredentialsCreateResolves(p) \/ CredentialsGetResolves(p) \/ CredentialsRejects(p)

\* the body of a received response is read and the code after the await runs
Continues(p) ==
    \/ JsonRejects(p)
    \/ RegisterBeginReturns(p)
    \/ RegisterCompleteReturns(p)
    \/ SigninBeginReturns(p)
    \/ SigninCompleteReturns(p)

\* every network call and every platform invocation settles in the end, and
\* the event loop runs what waits for them
Fairness ==
    \A p \in Procs :
        /\ WF_vars(NetworkSettles(p))
        /\ WF_vars(PlatformSettles(p))
        /\ WF_vars(Continues(p))

SpecFair == Init /\ [][Next]_vars /\ Fairness

-----------------------------------------------------------------------------
(* The transcoder on its own: a value is drawn, and coerce calls are chained *)

CodecInputs ==
    {U8(b) : b \in SeqsUpTo(ByteVals, MaxLen)}
    \cup {Buf(b) : b \in SeqsUpTo(ByteVals, MaxLen)}
    \cup {Arr(a) : a \in SeqsUpTo(ArrayVals, MaxLen)}
    \cup {Str(c) : c \in SeqsUpTo(TextChars, MaxText)}
    \cup {Num(5), Undefined, Null, [t |-> "object"]}

InitCodec ==
    /\ value \in CodecInputs
    /\ trail = <<>>
    /\ PublicKeyCredential = [t |-> "function"]
    /\ config = Constructor([apiKey |-> "key-1"])
    /\ proc = [p \in Procs |-> IdleFrame]
    /\ requests = [p \in Procs |-> <<>>]
    /\ responses = [p \in Procs |-> <<>>]
    /\ platform = [p \in Procs |-> <<>>]

CoerceToBase64Url ==
    /\ Len(trail) < MaxSteps
    /\ ~IsError(value)
    /\ value' = coerceToBase64Url(value)
    /\ trail' = Append(trail, [op |-> "coerceToBase64Url", arg |-> value])
    /\ UNCHANGED clientVars

CoerceToArrayBuffer ==
    /\ Len(trail) < MaxSteps
    /\ ~IsError(value)
    /\ value' = coerceToArrayBuffer(value)
    /\ trail' = Append(trail, [op |-> "coerceToArrayBuffer", arg |-> value])
    /\ UNCHANGED clientVars

NextCodec == CoerceToBase64Url \/ CoerceToArrayBuffer

SpecCodec == InitCodec /\ [][NextCodec]_vars

-----------------------------------------------------------------------------
(* isPlatformSupported on its own: calls of the exported function *)

ProbeName == "isUserVerifyingPlatformAuthenticatorAvailable"

\* the probe may reject, as where a permissions policy blocks the feature
ProbeError == Thrown("SecurityError", "The operation is insecure.")

InitProbe ==
    /\ PublicKeyCredential \in {Undefined, [t |-> "object"], [t |-> "function"]}
    /\ config = Constructor([apiKey |-> "key-1"])
    /\ proc = [c \in Callers |-> IdleFrame]
    /\ requests = [c \in Callers |-> <<>>]
    /\ responses = [c \in Callers |-> <<>>]
    /\ platform = [c \in Callers |-> <<>>]
    /\ value = Undefined
    /\ trail = <<>>

IsPlatformSupportedAlwaysProbes(c) ==
    /\ proc[c].pc = "idle"
    /\ proc' = [proc EXCEPT ![c] = [@ EXCEPT !.entry = "isPlatformSupported",
                                             !.pc = "probe",
                                             !.promise = [state |-> "pending"]]]
    /\ platform' = [platform EXCEPT ![c] = Append(@, [op |-> ProbeName])]
    /\ UNCHANGED <<PublicKeyCredential, config, requests, responses, value, trail>>

\* isPlatformSupported(): returns false, or calls the probe and returns its promise
IsPlatformSupported(c) ==
    /\ proc[c].pc = "idle"
    /\ IF ~isBrowserSupported
       THEN /\ proc' = [proc EXCEPT ![c] =
                   [@ EXCEPT !.entry = "isPlatformSupported",
                             !.pc = "settled",
                             !.promise = Fulfilled(Bool(FALSE))]]
            /\ UNCHANGED platform
       ELSE /\ proc' = [proc EXCEPT ![c] =
                   [@ EXCEPT !.entry = "isPlatformSupported",
                             !.pc = "probe",
                             !.promise = [state |-> "pending"]]]
            /\ platform' = [platform EXCEPT ![c] = Append(@, [op |-> ProbeName])]
    /\ UNCHANGED <<PublicKeyCredential, config, requests, responses, value, trail>>

\* the probe's promise resolves: the returned promise resolves with its value
ProbeResolves(c) ==
    /\ proc[c].pc = "probe"
    /\ \E available \in BOOLEAN :
           proc' = [proc EXCEPT ![c] =
               [@ EXCEPT !.pc = "settled",
                         !.result = Bool(available),
                         !.promise = Fulfilled(Bool(available))]]
    /\ UNCHANGED <<PublicKeyCredential, config, requests, responses, platform, value, trail>>

\* the probe's promise rejects: the returned promise rejects with its reason
ProbeRejects(c) ==
    /\ proc[c].pc = "probe"
    /\ proc' = [proc EXCEPT ![c] =
           [@ EXCEPT !.pc = "settled",
                     !.result = ProbeError,
                     !.promise = Rejected(ProbeError)]]
    /\ UNCHANGED <<PublicKeyCredential, config, requests, responses, platform, value, trail>>

NextProbe ==
    \E c \in Callers :
        \/ IsPlatformSupported(c)
        \/ ProbeResolves(c)
        \/ ProbeRejects(c)

SpecProbe == InitProbe /\ [][NextProbe]_vars

-----------------------------------------------------------------------------
(* Properties of the ceremonies, checked under Spec *)

Settled(p) == proc[p].pc = "settled"
IsRegister(p) == proc[p].entry = "register"
IsSignin(p) == proc[p].entry \in {"signinWithId", "signinWithAlias"}
Paths(p) == {requests[p][i].path : i \in DOMAIN requests[p]}

\* C1: without the platform's public-key credential capability every call of
\* register, signinWithId or signinWithAlias is rejected with the
\* unsupported-platform error, no fetch is ever issued and the platform's
\* create / get is never invoked.
C1_UnsupportedFailsWithoutIO ==
    ~isBrowserSupported =>
        \A p \in Procs :
            /\ requests[p] = <<>>
            /\ responses[p] = <<>>
            /\ platform[p] = <<>>
            /\ proc[p].pc # "idle" =>
                   /\ Settled(p)
                   /\ proc[p].promise = Rejected(Thrown("Error", UnsupportedMessage))

C1_Witness ==
    /\ ~isBrowserSupported
    /\ \E p, q \in Procs :
           /\ IsRegister(p) /\ Settled(p)
           /\ IsSignin(q) /\ Settled(q)

\* C2: when navigator.credentials.create resolves with no credential, register
\* is rejected with the error of the missing-result check, wrapped at the
\* ceremony boundary, and /register/complete is never requested.
C2_NoCredentialAbortsRegister ==
    \A p \in Procs :
        (IsRegister(p) /\ proc[p].credential = Null) =>
            /\ Settled(p)
            /\ proc[p].logged =
                   Thrown("Error", "Failed to create credential (navigator.credentials.create)")
            /\ proc[p].promise =
                   Rejected(Thrown("Error", RegisterPrefix \o
                       "Failed to create credential (navigator.credentials.create)"))
            /\ "/register/complete" \notin Paths(p)

C2_Witness ==
    \E p \in Procs :
        /\ IsRegister(p)
        /\ proc[p].credential = Null
        /\ Len(platform[p]) = 1
        /\ Settled(p)

\* C3: an invocation is fulfilled only if every answer of the backend it
\* received was a success; a non-success response or a network failure at
\* begin or at complete always ends it in a rejection.
C3_NoPartialSuccess ==
    \A p \in Procs :
        proc[p].promise.state = "fulfilled" =>
            \A i \in DOMAIN responses[p] : responses[p][i].ok

\* C4, as claimed: whatever step raises the error, the guard included, the
\* caller gets a ceremony-level error whose message is the prefix followed by
\* the message of the error caught at the ceremony boundary.
C4_EveryErrorWrapped ==
    \A p \in Procs :
        proc[p].promise.state = "rejected" =>
            /\ IsError(proc[p].logged)
            /\ proc[p].promise.value.message =
                   (IF IsRegister(p) THEN RegisterPrefix ELSE SigninPrefix)
                       \o proc[p].logged.message

\* the errors the steps after the guard raise
StepErrorMessages ==
    { FetchError.message, JsonError.message, NotAllowedError.message,
      "Could not coerce to ArrayBuffer",
      "Cannot read properties of undefined (reading 'challenge')",
      "Cannot read properties of null (reading 'response')",
      "Failed to create credential (navigator.credentials.create)" }

\* C4, amended: an error raised at a step after the guard (begin request,
\* transcode-in, platform invocation, missing-result check, complete request)
\* is caught once and reaches the caller as one Error whose message is the
\* ceremony's prefix followed by the original message; the guard's error
\* reaches the caller as it is, neither caught nor wrapped.
C4_ErrorsAfterGuardWrapped ==
    \A p \in Procs :
        proc[p].promise.state = "rejected" =>
            IF isBrowserSupported
            THEN /\ IsError(proc[p].logged)
                 /\ proc[p].logged.message \in StepErrorMessages
                 /\ proc[p].promise.value =
                        Thrown("Error",
                               (IF IsRegister(p) THEN RegisterPrefix ELSE SigninPrefix)
                                   \o proc[p].logged.message)
            ELSE /\ proc[p].logged = Undefined
                 /\ proc[p].promise.value = Thrown("Error", UnsupportedMessage)

C4_Witness ==
    \E p, q \in Procs :
        /\ IsRegister(p)
        /\ Len(responses[p]) = 2
        /\ responses[p][2] = NetworkFailure
        /\ proc[p].promise.state = "rejected"
        /\ IsSignin(q)
        /\ proc[q].logged = Thrown("TypeError", "Could not coerce to ArrayBuffer")
        /\ proc[q].promise.state = "rejected"

\* C5: the body of every /signin/begin request holds exactly one of the keys
\* userId and alias: userId, with the argument, for signinWithId, and alias,
\* with the argument, for signinWithAlias; the other key is absent.
C5_ExactlyOneSelector ==
    \A p \in Procs :
        \A i \in DOMAIN requests[p] :
            requests[p][i].path = "/signin/begin" =>
                LET body == requests[p][i].body
                IN  /\ proc[p].entry = "signinWithId" =>
                           /\ "userId" \in DOMAIN body
                           /\ body.userId = proc[p].args.userId
                           /\ "alias" \notin DOMAIN body
                    /\ proc[p].entry = "signinWithAlias" =>
                           /\ "alias" \in DOMAIN body
                           /\ body.alias = proc[p].args.alias
                           /\ "userId" \notin DOMAIN body
                    /\ IsSignin(p)

C5_Witness ==
    \E p, q \in Procs :
        /\ proc[p].entry = "signinWithId"
        /\ Paths(p) = {"/signin/begin"}
        /\ proc[q].entry = "signinWithAlias"
        /\ Paths(q) = {"/signin/begin"}

\* C6: a fulfilled sign-in is fulfilled with the data of the parsed
\* /signin/complete response of the same invocation.
C6_SigninReturnsCompleteData ==
    \A p \in Procs :
        (IsSignin(p) /\ proc[p].promise.state = "fulfilled") =>
            /\ Len(responses[p]) = 2
            /\ Len(requests[p]) = 2
            /\ requests[p][2].path = "/signin/complete"
            /\ proc[p].promise.value = Get(responses[p][2].json, "data")
            /\ responses[p][2].ok => proc[p].promise.value = Txt("verified-" \o ToString(p))

C6_Witness ==
    \E p \in Procs :
        /\ IsSignin(p)
        /\ proc[p].promise.state = "fulfilled"
        /\ responses[p][2].ok
        /\ proc[p].promise.value = Txt("verified-" \o ToString(p))

\* C7, as claimed: a fulfilled register is fulfilled with the parsed
\* /register/complete response.
C7_RegisterResolvesWithResponse ==
    \A p \in Procs :
        (IsRegister(p) /\ proc[p].promise.state = "fulfilled") =>
            proc[p].promise.value = responses[p][2].json

\* C7, amended: registerComplete hands the parsed /register/complete response
\* to register, which drops it: a fulfilled register is fulfilled with
\* undefined.
C7_RegisterDropsResponse ==
    \A p \in Procs :
        (IsRegister(p) /\ proc[p].promise.state = "fulfilled") =>
            /\ Len(responses[p]) = 2
            /\ requests[p][2].path = "/register/complete"
            /\ proc[p].result = responses[p][2].json
            /\ proc[p].promise.value = Undefined

C7_Witness ==
    \E p \in Procs :
        /\ IsRegister(p)
        /\ proc[p].promise.state = "fulfilled"
        /\ responses[p][2].ok
        /\ proc[p].result = Object([token |-> Txt("registered-" \o ToString(p))])

\* the parsed begin response of invocation p, once it has one
HasBegin(p) ==
    /\ Len(responses[p]) >= 1
    /\ responses[p][1].json # NotJson
    /\ Get(responses[p][1].json, "data").t = "object"

BeginData(p) == Get(responses[p][1].json, "data")

\* the list of credentials of the begin response: excludeCredentials for
\* register, allowCredentials for sign-in
BeginList(p) ==
    Get(BeginData(p), IF IsRegister(p) THEN "excludeCredentials" ELSE "allowCredentials")

\* a field register / signin decodes is there but is no string
NonStringField(p) ==
    /\ HasBegin(p)
    /\ \/ Get(BeginData(p), "challenge").t # "string"
       \/ IsRegister(p) /\ Get(Get(BeginData(p), "user"), "id").t # "string"
       \/ /\ BeginList(p).t = "Array"
          /\ \E i \in 1..Len(BeginList(p).items) :
                 Get(BeginList(p).items[i], "id").t # "string"

EncodingError == Thrown("TypeError", "Could not coerce to ArrayBuffer")

\* C11: when the challenge, the user id or a listed credential id of the begin
\* response is no string, the value is not coerced: the invocation is rejected
\* with the wrapped 'Could not coerce to ArrayBuffer' TypeError, the platform's
\* create / get is never invoked and no complete request is issued.
C11_NonStringFieldFails ==
    \A p \in Procs :
        NonStringField(p) =>
            /\ platform[p] = <<>>
            /\ Len(requests[p]) = 1
            /\ proc[p].pc \in {"json", "settled"}
            /\ Settled(p) =>
                   /\ proc[p].logged = EncodingError
                   /\ proc[p].promise =
                          Rejected(Thrown("Error",
                              (IF IsRegister(p) THEN RegisterPrefix ELSE SigninPrefix)
                                  \o EncodingError.message))

C11_Witness ==
    \E p, q \in Procs :
        /\ IsRegister(p) /\ Settled(p) /\ HasBegin(p)
        /\ Get(BeginData(p), "challenge") = Challenge
        /\ Get(Get(BeginData(p), "user"), "id") = UserIdText
        /\ BeginList(p).t = "Array"
        /\ Get(BeginList(p).items[1], "id") = Num(5)
        /\ proc[p].logged = EncodingError
        /\ IsSignin(q) /\ Settled(q) /\ HasBegin(q)
        /\ BeginList(q).t = "Array"
        /\ Get(BeginList(q).items[1], "id") = Undefined
        /\ proc[q].logged = EncodingError

\* the field is binary and holds the decoding of the text
DecodedFrom(binary, text) ==
    /\ binary.t = "Uint8Array"
    /\ text.t = "string"
    /\ binary = coerceToArrayBuffer(text)

\* C12: the options navigator.credentials.create is invoked with hold, as
\* binary, the decoding of the begin response's challenge, of its user.id and
\* of the id of every listed credential, in the same order, and no list where
\* the response has none; and response.rawId of the /register/complete body is
\* the base64url encoding of the rawId bytes of the credential that this
\* invocation of create resolved with.
C12_RegistrationDataFlow ==
    \A p \in Procs :
        (IsRegister(p) /\ platform[p] # <<>>) =>
            /\ Len(platform[p]) = 1
            /\ platform[p][1].op = "create"
            /\ HasBegin(p)
            /\ LET publicKey == platform[p][1].publicKey
               IN  /\ DecodedFrom(publicKey.challenge, Get(BeginData(p), "challenge"))
                   /\ Get(BeginData(p), "challenge") = Challenge =>
                          publicKey.challenge = U8(<<1, 2, 3>>)
                   /\ DecodedFrom(publicKey.user.id, Get(Get(BeginData(p), "user"), "id"))
                   /\ IF BeginList(p) = Undefined
                      THEN "excludeCredentials" \notin DOMAIN publicKey
                      ELSE /\ Len(publicKey.excludeCredentials.items) = Len(BeginList(p).items)
                           /\ \A i \in 1..Len(BeginList(p).items) :
                                  DecodedFrom(publicKey.excludeCredentials.items[i].id,
                                              Get(BeginList(p).items[i], "id"))
            /\ Len(requests[p]) >= 2 =>
                   /\ requests[p][2].path = "/register/complete"
                   /\ proc[p].credential = AttestationCredential(p)
                   /\ requests[p][2].body.response.rawId =
                          coerceToBase64Url(U8(proc[p].credential.rawId.b))

C12_Witness ==
    /\ IsRegister(1)
    /\ platform[1] # <<>>
    /\ Get(BeginData(1), "challenge") = Challenge
    /\ platform[1][1].publicKey.challenge = U8(<<1, 2, 3>>)
    /\ platform[1][1].publicKey.user.id = U8(<<251, 255>>)
    /\ BeginList(1) # Undefined
    /\ platform[1][1].publicKey.excludeCredentials.items[1].id = U8(<<1>>)
    /\ Len(requests[1]) = 2
    /\ proc[1].credential.rawId = Buf(<<1, 251, 255>>)
    /\ requests[1][2].body.response.rawId = Str(<<"A", "f", "v", "_">>)
    /\ IsRegister(2)
    /\ platform[2] # <<>>
    /\ BeginList(2) = Undefined

CompletePaths == {"/register/complete", "/signin/complete"}

\* the complete requests issued so far, as <<invocation, index>>
CompleteRequests ==
    UNION {{<<p, i>> : i \in {j \in DOMAIN requests[p] :
                                 requests[p][j].path \in CompletePaths}} : p \in Procs}

\* C13: every complete request carries the sessionId of the begin response of
\* the same invocation, and no session id is sent in two complete requests,
\* neither by two invocations nor twice by one.
C13_SessionCorrelation ==
    /\ \A pi \in CompleteRequests :
           /\ HasBegin(pi[1])
           /\ "sessionId" \in DOMAIN requests[pi[1]][pi[2]].body
           /\ requests[pi[1]][pi[2]].body.sessionId =
                  Get(responses[pi[1]][1].json, "sessionId")
           /\ requests[pi[1]][pi[2]].body.sessionId = SessionId(pi[1])
    /\ \A pi, qj \in CompleteRequests :
           requests[pi[1]][pi[2]].body.sessionId =
               requests[qj[1]][qj[2]].body.sessionId => pi = qj

C13_Witness ==
    /\ IsRegister(1)
    /\ IsSignin(2)
    /\ CompleteRequests = {<<1, 2>>, <<2, 2>>}
    /\ requests[1][2].body.sessionId = Txt("session-1")
    /\ requests[2][2].body.sessionId = Txt("session-2")
    /\ Settled(1)
    /\ Settled(2)

\* every request issued so far was built from the configuration as it is now
RequestsFollowConfig ==
    \A p \in Procs :
        \A i \in DOMAIN requests[p] :
            /\ requests[p][i].url = config.apiUrl \o requests[p][i].path
            /\ requests[p][i].headers.ApiKey = config.apiKey
            /\ requests[p][i].body.RPID = Txt(config.rpid)
            /\ requests[p][i].body.Origin = Txt(config.origin)
            /\ \A j \in DOMAIN requests[p] :
                   /\ requests[p][i].body.RPID = requests[p][j].body.RPID
                   /\ requests[p][i].body.Origin = requests[p][j].body.Origin

\* C14: no step of any invocation writes the configuration: apiUrl, apiKey,
\* origin and rpid stay what the constructor made them, and the RPID and the
\* Origin an invocation sends in its begin request and in its complete request
\* are those of the configuration, hence the same.
C14_ConfigReadOnly ==
    /\ [](config \in {Constructor(given) : given \in GivenConfigs})
    /\ []RequestsFollowConfig
    /\ [][config' = config]_vars

C14_Witness ==
    \E p, q \in Procs :
        /\ p # q
        /\ Paths(p) = {"/register/begin", "/register/complete"}
        /\ Paths(q) = {"/signin/begin", "/signin/complete"}
        /\ config.origin = "https://other.example"
        /\ config.rpid = "app.example"
        /\ requests[p][1].body.Origin = Txt("https://other.example")
        /\ requests[p][2].body.Origin = Txt("https://other.example")
        /\ requests[q][2].body.RPID = Txt("app.example")
        /\ Settled(p)

\* no field of the options is left to decode
AllBinary(op, publicKey) ==
    LET list == Get(publicKey, IF op = "create" THEN "excludeCredentials"
                                                ELSE "allowCredentials")
    IN  /\ Get(publicKey, "challenge").t = "Uint8Array"
        /\ op = "create" => Get(Get(publicKey, "user"), "id").t = "Uint8Array"
        /\ list # Undefined =>
               \A i \in 1..Len(list.items) : Get(list.items[i], "id").t = "Uint8Array"

\* what has happened in invocation p implies what must have happened before
OrderedSoFar(p) ==
    /\ proc[p].begun # Undefined =>
           /\ HasBegin(p)
           /\ responses[p][1].ok
    /\ platform[p] # <<>> =>
           /\ Len(platform[p]) = 1
           /\ proc[p].begun # Undefined
           /\ platform[p][1].op = (IF IsRegister(p) THEN "create" ELSE "get")
           /\ platform[p][1].publicKey = Get(proc[p].begun, "data")
           /\ AllBinary(platform[p][1].op, platform[p][1].publicKey)
    /\ Len(requests[p]) >= 2 =>
           /\ requests[p][2].path \in CompletePaths
           /\ platform[p] # <<>>
           /\ proc[p].credential.t = "object"

\* a step that invokes the platform starts from the parsed begin response, and
\* a step that issues the complete request starts from the awaited platform
\* invocation and has its credential
OrderedStep(p) ==
    /\ platform'[p] # platform[p] =>
           /\ proc[p].pc = "json"
           /\ proc[p].site \in {"registerBegin", "signinBegin"}
           /\ Len(responses[p]) = 1
           /\ platform[p] = <<>>
           /\ proc'[p].pc \in {"create", "get"}
    /\ (requests'[p] # requests[p] /\ requests[p] # <<>>) =>
           /\ proc[p].pc \in {"create", "get"}
           /\ Len(requests[p]) = 1
           /\ Len(platform[p]) = 1
           /\ proc[p].credential = Undefined
           /\ proc'[p].credential.t = "object"
           /\ requests'[p][2].path \in CompletePaths

\* C16: in every invocation the begin response is there and parsed before a
\* field is decoded, every field is decoded before the platform's create / get
\* is invoked, and the platform has resolved with a credential before the
\* complete request is issued; no complete request exists in an invocation
\* whose begin request or whose platform invocation failed.
C16_StrictOrdering ==
    /\ [](\A p \in Procs : OrderedSoFar(p))
    /\ [][\A p \in Procs : OrderedStep(p)]_vars

C16_Witness ==
    \E p, q \in Procs :
        /\ IsRegister(p)
        /\ Paths(p) = {"/register/begin", "/register/complete"}
        /\ AllBinary("create", platform[p][1].publicKey)
        /\ Get(platform[p][1].publicKey, "excludeCredentials") # Undefined
        /\ IsSignin(q)
        /\ Paths(q) = {"/signin/begin", "/signin/complete"}
        /\ AllBinary("get", platform[q][1].publicKey)
        /\ Get(platform[q][1].publicKey, "allowCredentials") # Undefined
        /\ proc[q].credential = AssertionCredential(q)

BeginPaths == {"/register/begin", "/signin/begin"}

\* how many requests of invocation p went to one of the paths
Issued(p, paths) ==
    Cardinality({i \in DOMAIN requests[p] : requests[p][i].path \in paths})

\* C17: an invocation issues one begin request at most, invokes the platform
\* once at most and issues one complete request at most, whichever step fails;
\* once it has settled, fulfilled or rejected, it issues no request, invokes
\* the platform no more and stays settled.
C17_NoRetry ==
    /\ [](\A p \in Procs :
              /\ Issued(p, BeginPaths) <= 1
              /\ Issued(p, CompletePaths) <= 1
              /\ Len(requests[p]) = Issued(p, BeginPaths) + Issued(p, CompletePaths)
              /\ Len(platform[p]) <= 1
              /\ Len(responses[p]) <= Len(requests[p]))
    /\ [][\A p \in Procs :
              Settled(p) => /\ requests'[p] = requests[p]
                            /\ responses'[p] = responses[p]
                            /\ platform'[p] = platform[p]
                            /\ proc'[p] = proc[p]]_vars

C17_Witness ==
    \E p, q \in Procs :
        /\ p # q
        /\ IsRegister(p)
        /\ Settled(p)
        /\ proc[p].logged = FetchError
        /\ Issued(p, BeginPaths) = 1
        /\ Issued(p, CompletePaths) = 1
        /\ Len(platform[p]) = 1
        /\ IsSignin(q)
        /\ Settled(q)
        /\ proc[q].logged = NotAllowedError
        /\ Issued(q, BeginPaths) = 1
        /\ Issued(q, CompletePaths) = 0

\* what reading credential.response throws when credential is null
NullCredentialError ==
    Thrown("TypeError", "Cannot read properties of null (reading 'response')")

\* C18: when navigator.credentials.get resolves with null, the sign-in is
\* rejected with the ceremony's error (signinComplete throws on reading
\* credential.response, and the catch block wraps it), no /signin/complete
\* request is issued and the caller gets no value.
C18_NoAssertionAbortsSignin ==
    \A p \in Procs :
        (IsSignin(p) /\ proc[p].credential = Null) =>
            /\ Settled(p)
            /\ proc[p].logged = NullCredentialError
            /\ proc[p].promise =
                   Rejected(Thrown("Error", SigninPrefix \o NullCredentialError.message))
            /\ proc[p].result = Undefined
            /\ Paths(p) = {"/signin/begin"}
            /\ Len(responses[p]) = 1

C18_Witness ==
    \E p, q \in Procs :
        /\ proc[p].entry = "signinWithId"
        /\ proc[p].credential = Null
        /\ platform[p] # <<>>
        /\ platform[p][1].op = "get"
        /\ proc[p].promise.state = "rejected"
        /\ proc[q].entry = "signinWithAlias"
        /\ proc[q].credential = Null
        /\ proc[q].promise.state = "rejected"

\* the begin request of an invocation, from its own arguments
OwnBeginRequest(frame) ==
    IF frame.entry = "register"
    THEN Request("/register/begin", registerBeginBody(frame.args.token))
    ELSE Request("/signin/begin", signinBeginBody(frame.args))

\* the complete request of invocation p, from the session id the backend
\* issued to it and the credential the platform resolved its own call with
OwnCompleteRequest(p, frame) ==
    IF frame.entry = "register"
    THEN Request("/register/complete",
                 registerCompleteBody(AttestationCredential(p), SessionId(p),
                                      frame.args.credentialNickname))
    ELSE Request("/signin/complete",
                 signinCompleteBody(AssertionCredential(p), SessionId(p)))

\* the complete request of p carries what p itself obtained, nothing of another
OwnSessionAndCredential(p) ==
    Len(requests[p]) >= 2 =>
        /\ requests[p][2].body.sessionId = Get(responses[p][1].json, "sessionId")
        /\ requests[p][2].body.sessionId = SessionId(p)
        /\ requests[p][2].body.response.id = Get(proc[p].credential, "id")
        /\ \A q \in Procs \ {p} :
               /\ requests[p][2].body.sessionId # SessionId(q)
               /\ requests[p][2].body.response.id # Txt("cred-" \o ToString(q))

\* invocation p is not where it was
Changed(p) ==
    \/ proc'[p] # proc[p]
    \/ requests'[p] # requests[p]
    \/ responses'[p] # responses[p]
    \/ platform'[p] # platform[p]

\* a request that p issues is added to its requests, and is the one that its
\* own arguments, session id and credential determine
OwnRequestIssued(p) ==
    requests'[p] # requests[p] =>
        requests'[p] =
            Append(requests[p],
                   IF requests[p] = <<>> THEN OwnBeginRequest(proc'[p])
                   ELSE OwnCompleteRequest(p, proc'[p]))

\* C19: however two invocations interleave at their awaits, the complete
\* request of each carries the session id of its own begin response and the
\* credential of its own platform invocation, never those of the other; and a
\* step of one invocation, its failure included, changes neither the state nor
\* the requests of the other.
C19_CeremoniesIndependent ==
    /\ [](\A p \in Procs : OwnSessionAndCredential(p))
    /\ [][/\ Cardinality({p \in Procs : Changed(p)}) <= 1
          /\ \A p \in Procs : OwnRequestIssued(p)]_vars

C19_Witness ==
    \E p, q \in Procs :
        /\ p # q
        /\ proc[p].promise.state = "rejected"
        /\ Len(requests[p]) = 2
        /\ requests[p][2].body.sessionId = SessionId(p)
        /\ proc[q].promise.state = "fulfilled"
        /\ Len(requests[q]) = 2
        /\ requests[q][2].body.sessionId = SessionId(q)
        /\ requests[q][2].body.response.id = Txt("cred-" \o ToString(q))
        /\ responses[q][2].ok

-----------------------------------------------------------------------------
(* Termination of the ceremonies, checked under SpecFair *)

\* while p awaits the platform nothing but the platform can move it on: no
\* timer, no retry, no other step of the client is enabled
WaitsForPlatformOnly(p) ==
    proc[p].pc \in {"create", "get"} =>
        /\ ENABLED PlatformSettles(p)
        /\ ~ENABLED (NetworkSettles(p) \/ Continues(p))

\* C20: if every fetch and every platform invocation settles, every
\* invocation of register, signinWithId or signinWithAlias settles too,
\* fulfilled or rejected; the client adds no waiting and no timer of its own,
\* so an invocation that awaits the platform stays suspended for as long as
\* the platform does not settle.
C20_Terminates ==
    /\ \A p \in Procs : (proc[p].pc # "idle") ~> Settled(p)
    /\ [](\A p \in Procs : WaitsForPlatformOnly(p))

C20_Witness ==
    \E p, q \in Procs :
        /\ IsRegister(p)
        /\ Len(platform[p]) = 1
        /\ Settled(p)
        /\ proc[p].promise.state = "fulfilled"
        /\ IsSignin(q)
        /\ proc[q].pc = "get"

-----------------------------------------------------------------------------
(* Properties of the transcoder, checked under SpecCodec *)

\* what the k-th coerce call of the trail returned or threw
ResultOf(k) == IF k = Len(trail) THEN value ELSE trail[k + 1].arg

IsBinary(v) == v.t \in {"Array", "ArrayBuffer", "Uint8Array"}

\* the bytes of an accepted input of coerceToBase64Url
BytesOf(v) == IF v.t = "Array" THEN [i \in 1..Len(v.a) |-> v.a[i] % 256] ELSE v.b

HasChar(v, chars) == \E i \in 1..Len(v.c) : v.c[i] \in chars

\* C8: decoding the encoding of a byte sequence gives the byte sequence back:
\* same length, same bytes, same order.
C8_RoundTrip ==
    \A k \in 1..(Len(trail) - 1) :
        (/\ trail[k].op = "coerceToBase64Url"
         /\ IsBinary(trail[k].arg)
         /\ trail[k + 1].op = "coerceToArrayBuffer") =>
            ResultOf(k + 1) = U8(BytesOf(trail[k].arg))

C8_Witness ==
    /\ Len(trail) = 2
    /\ trail[1] = [op |-> "coerceToBase64Url", arg |-> U8(<<251, 255>>)]
    /\ trail[2] = [op |-> "coerceToArrayBuffer", arg |-> Str(<<"-", "_", "8">>)]
    /\ value = U8(<<251, 255>>)

\* C9: for every accepted input coerceToBase64Url returns a text, and the
\* text holds none of '+', '/' and '='.
C9_NoStandardCharsNoPadding ==
    \A k \in 1..Len(trail) :
        (trail[k].op = "coerceToBase64Url" /\ IsBinary(trail[k].arg)) =>
            /\ ResultOf(k).t = "string"
            /\ ~HasChar(ResultOf(k), {"+", "/", "="})

C9_Witness ==
    /\ Len(trail) = 1
    /\ trail[1] = [op |-> "coerceToBase64Url", arg |-> Buf(<<251, 255>>)]
    /\ value = Str(<<"-", "_", "8">>)

\* C10, as claimed: a text holding '+' or '/' is rejected by
\* coerceToArrayBuffer.
C10_StandardAlphabetRejected ==
    \A k \in 1..Len(trail) :
        (/\ trail[k].op = "coerceToArrayBuffer"
         /\ trail[k].arg.t = "string"
         /\ HasChar(trail[k].arg, {"+", "/"})) =>
            IsError(ResultOf(k))

UrlChars == (AlphabetChars \ {"+", "/"}) \cup {"-", "_"}

\* the text with '+' written '-' and '/' written '_'
UrlForm(chars) == ReplaceAll(ReplaceAll(chars, "+", "-"), "/", "_")

\* C10, amended: coerceToArrayBuffer accepts '-' and '_' (a text of base64url
\* characters whose length is not 1 modulo 4 is decoded), and a text holding
\* '+' or '/' is treated as the same text written with '-' and '_': it is
\* decoded to the same bytes, or rejected only where that text is rejected.
C10_AlphabetsInterchangeable ==
    \A k \in 1..Len(trail) :
        (trail[k].op = "coerceToArrayBuffer" /\ trail[k].arg.t = "string") =>
            /\ ResultOf(k) = coerceToArrayBuffer(Str(UrlForm(trail[k].arg.c)))
            /\ (/\ \A i \in 1..Len(trail[k].arg.c) : trail[k].arg.c[i] \in UrlChars
                /\ Len(trail[k].arg.c) % 4 # 1) =>
                   ResultOf(k).t = "Uint8Array"

C10_Witness ==
    /\ Len(trail) = 1
    /\ trail[1] = [op |-> "coerceToArrayBuffer", arg |-> Str(<<"+", "/", "A">>)]
    /\ value = U8(<<251, 240>>)
    /\ value = coerceToArrayBuffer(Str(<<"-", "_", "A">>))

-----------------------------------------------------------------------------
(* Properties of isPlatformSupported, checked under SpecProbe *)

\* C15: without the capability isPlatformSupported resolves with false and the
\* probe is never invoked; with it the probe is invoked once, and the call
\* settles as the probe settles: it resolves with the probe's value.
C15_ProbeOnlyWhenSupported ==
    \A c \in Callers :
        proc[c].pc # "idle" =>
            /\ requests[c] = <<>>
            /\ IF ~isBrowserSupported
               THEN /\ platform[c] = <<>>
                    /\ Settled(c)
                    /\ proc[c].promise = Fulfilled(Bool(FALSE))
               ELSE /\ platform[c] = <<[op |-> ProbeName]>>
                    /\ proc[c].pc \in {"probe", "settled"}
                    /\ proc[c].pc = "probe" =>
                           /\ proc[c].result = Undefined
                           /\ proc[c].promise.state = "pending"
                    /\ Settled(c) =>
                           /\ proc[c].result # Undefined
                           /\ proc[c].promise =
                                  (IF IsError(proc[c].result)
                                   THEN Rejected(proc[c].result)
                                   ELSE Fulfilled(proc[c].result))

C15_Witness ==
    /\ PublicKeyCredential = [t |-> "function"]
    /\ proc[1].result = Bool(TRUE)
    /\ proc[1].promise = Fulfilled(Bool(TRUE))
    /\ proc[2].result = Bool(FALSE)
    /\ proc[2].promise = Fulfilled(Bool(FALSE))
    /\ platform[1] = <<[op |-> ProbeName]>>

=============================================================================
